---- MODULE Spec2Model ----
(***************************************************************************)
(* Health Metrics Aggregation Engine (data_structures.py) and the request  *)
(* layer that feeds it (app.py).                                           *)
(*                                                                         *)
(* Time is counted in ticks since 2023-01-01T00:00; a day has TicksPerDay  *)
(* ticks.  A datetime is the tick count; a date string of the request      *)
(* layer is the triple <<year, month, day>> of its fields.                 *)
(***************************************************************************)
EXTENDS Integers, Sequences, FiniteSets, TLC

VARIABLES
    cache,              \* HealthDataCache: [cache: key -> value, access_order: Seq(key)]
    user_timelines,     \* HealthMetricsAggregator.user_timelines: user_id -> PatientTimeline
    workload_heap,      \* DoctorAnalytics.workload_heap: heap of <<patient_count, doctor_id>>
    specialization_map, \* DoctorAnalytics.specialization_map: name -> Seq(doctor_id)
    urgent_treatments,  \* TreatmentPriorityQueue.urgent_treatments: heap of <<priority, date, id>>
    overdue_treatments, \* TreatmentPriorityQueue.overdue_treatments
    now,                \* datetime.now(), in ticks
    op,                 \* the last call made: [name, arg]
    ret,                \* what the last call returned
    clock,              \* number of cache calls made so far
    lastUse,            \* key -> clock value of its last get-hit or put
    promoted,           \* the key last hit by a get on a full cache, followed only by puts of new keys
    runLen,             \* how many new keys were put since that get
    recordLog,          \* the records handed to add_health_record / add_record, in call order
    treatmentLog,       \* the add_treatment calls made: a set of [id, date, severity, at]
    write_lock,         \* app._write_lock: the handler that holds it, 0 when it is free
    handlers,           \* request handler -> where it stands in its request, and its locals
    store,              \* the sqlite database: committed rows and the open transaction
    requests,           \* number of requests received so far
    faults              \* number of sqlite3.OperationalError raised so far

vars == <<cache, user_timelines, workload_heap, specialization_map, urgent_treatments,
          overdue_treatments, now, op, ret, clock, lastUse, promoted, runLen,
          recordLog, treatmentLog, write_lock, handlers, store, requests, faults>>

cacheVars == <<cache, clock, lastUse, promoted, runLen>>
doctorVars == <<workload_heap, specialization_map>>
queueVars == <<urgent_treatments, overdue_treatments, treatmentLog>>
appVars == <<write_lock, handlers, store, requests, faults>>

(***************************************************************************)
(* Bounds of the model.                                                    *)
(***************************************************************************)
TicksPerDay == 2
MaxCacheOps == 5
MaxRecords == 2
MaxTimelineRecords == 2
MaxDoctors == 3
MaxTreatments == 2
MaxCount == 2
MaxVisits == 3
MaxRequests == 4
MaxFaults == 1

Users == {1, 2}
\* a user id no record is ever added for
UnknownUser == CHOOSE u \in 1..(Cardinality(Users) + 1) : u \notin Users
DoctorIds == {1, 2}

(***************************************************************************)
(* Python values.                                                          *)
(***************************************************************************)
None == [none |-> TRUE]

\* bool(v) of the values a cache entry can hold: None is false, a non-empty dict is true
Truthy(v) == v # None

\* an exception leaving a call
Raised(name) == [raised |-> name]

Min(a, b) == IF a <= b THEN a ELSE b

Range(s) == {s[i] : i \in 1..Len(s)}

\* s[:n]
Take(s, n) == SubSeq(s, 1, Min(n, Len(s)))

\* list.remove(x) / deque.remove(x): drops the first occurrence
RECURSIVE Remove(_, _)
Remove(s, x) ==
    IF s = <<>> THEN <<>>
    ELSE IF Head(s) = x THEN Tail(s)
    ELSE <<Head(s)>> \o Remove(Tail(s), x)

\* tuple comparison a < b of two tuples of integers of the same length
RECURSIVE TupleLess(_, _)
TupleLess(a, b) ==
    IF a = <<>> THEN FALSE
    ELSE IF Head(a) # Head(b) THEN Head(a) < Head(b)
    ELSE TupleLess(Tail(a), Tail(b))

Day(d) == d * TicksPerDay

\* timedelta.days of (a - b): the floor of the difference in days
DaysBetween(a, b) == (a - b) \div TicksPerDay

(***************************************************************************)
(* The request layer: its handler threads, the write lock and the store.   *)
(***************************************************************************)
Handlers == {1, 2}

\* a handler between two requests
IdleHandler ==
    [pc |-> "idle", kind |-> "none", data |-> None, attempt |-> 0, rowid |-> 0,
     n |-> 0, temp_heap |-> <<>>, urgent |-> <<>>, e |-> None]

\* the database: health_records maps the record_id of a committed row to its diagnosis,
\* treatment holds the treatment_id of the committed rows, pending is the row inserted
\* by the open transaction
NewStore == [health_records |-> <<>>, treatment |-> {}, pending |-> None]

AppInit ==
    /\ write_lock = 0
    /\ handlers = [h \in Handlers |-> IdleHandler]
    /\ store = NewStore
    /\ requests = 0
    /\ faults = 0

(***************************************************************************)
(* Severity and HealthRecord.                                              *)
(***************************************************************************)
MILD == "mild"
MODERATE == "moderate"
CRITICAL == "critical"
Severity == {MILD, MODERATE, CRITICAL}

critical_keywords ==
    << <<"h","y","p","e","r","t","e","n","s","i","o","n">>,
       <<"d","i","a","b","e","t","e","s">>,
       <<"h","e","a","r","t">>,
       <<"c","a","n","c","e","r">>,
       <<"s","t","r","o","k","e">>,
       <<"e","m","e","r","g","e","n","c","y">> >>

moderate_keywords ==
    << <<"a","s","t","h","m","a">>,
       <<"a","l","l","e","r","g","i","e","s">>,
       <<"m","i","g","r","a","i","n","e">>,
       <<"a","r","t","h","r","i","t","i","s">>,
       <<"c","h","r","o","n","i","c">> >>

UpperCase == <<"A","B","C","D","E","F","G","H","I","J","K","L","M",
               "N","O","P","Q","R","S","T","U","V","W","X","Y","Z">>
LowerCase == <<"a","b","c","d","e","f","g","h","i","j","k","l","m",
               "n","o","p","q","r","s","t","u","v","w","x","y","z">>

\* str.lower(), one character
LowerChar(c) ==
    IF \E i \in 1..26 : UpperCase[i] = c
    THEN LowerCase[CHOOSE i \in 1..26 : UpperCase[i] = c]
    ELSE c

\* str.lower()
Lower(s) == [i \in 1..Len(s) |-> LowerChar(s[i])]

\* keyword in text
Contains(text, keyword) ==
    \E i \in 1..(Len(text) - Len(keyword) + 1) :
        SubSeq(text, i, i + Len(keyword) - 1) = keyword

AnyKeyword(text, keywords) == \E j \in 1..Len(keywords) : Contains(text, keywords[j])

\* the moderate keywords are looked for first
_calculate_severityModerateFirst(diagnosis) ==
    LET diagnosis_lower == Lower(diagnosis) IN
    IF AnyKeyword(diagnosis_lower, moderate_keywords) THEN MODERATE
    ELSE IF AnyKeyword(diagnosis_lower, critical_keywords) THEN CRITICAL
    ELSE MILD

_calculate_severity(diagnosis) ==
    LET diagnosis_lower == Lower(diagnosis) IN
    IF AnyKeyword(diagnosis_lower, critical_keywords) THEN CRITICAL
    ELSE IF AnyKeyword(diagnosis_lower, moderate_keywords) THEN MODERATE
    ELSE MILD

Diabetes == <<"T","y","p","e"," ","2"," ","D","i","a","b","e","t","e","s">>
Allergies == <<"S","e","a","s","o","n","a","l"," ","A","l","l","e","r","g","i","e","s">>
Ankle == <<"S","p","r","a","i","n","e","d"," ","a","n","k","l","e">>
Diagnoses == {Diabetes, Allergies, Ankle}

\* HealthRecord(..., severity=severity): the dataclass __init__ stores the arguments and
\* __post_init__ then sets severity from the diagnosis
HealthRecordWith(record_id, user_id, doctor_id, diagnosis, record_date, severity) ==
    LET self == [record_id |-> record_id, user_id |-> user_id, doctor_id |-> doctor_id,
                 diagnosis |-> diagnosis, record_date |-> record_date,
                 severity |-> severity]
    IN [self EXCEPT !.severity = _calculate_severity(self.diagnosis)]

\* HealthRecord(...) with the default severity
HealthRecord(record_id, user_id, doctor_id, diagnosis, record_date) ==
    HealthRecordWith(record_id, user_id, doctor_id, diagnosis, record_date, MILD)

(***************************************************************************)
(* Dates of the request layer.                                             *)
(***************************************************************************)
IsLeap(y) == (y % 4 = 0 /\ y % 100 # 0) \/ y % 400 = 0

DaysInMonth(y, m) ==
    IF m = 2 THEN (IF IsLeap(y) THEN 29 ELSE 28)
    ELSE IF m \in {4, 6, 9, 11} THEN 30 ELSE 31

RECURSIVE DaysBeforeMonth(_, _)
DaysBeforeMonth(y, m) == IF m <= 1 THEN 0 ELSE DaysBeforeMonth(y, m - 1) + DaysInMonth(y, m - 1)

DaysInYear(y) == IF IsLeap(y) THEN 366 ELSE 365

RECURSIVE DaysBeforeYear(_)
DaysBeforeYear(y) == IF y <= 2023 THEN 0 ELSE DaysBeforeYear(y - 1) + DaysInYear(y - 1)

\* datetime.fromisoformat('YYYY-MM-DD'): midnight of that day
fromisoformat(s) == Day(DaysBeforeYear(s[1]) + DaysBeforeMonth(s[1], s[2]) + s[3] - 1)

\* datetime.year
RECURSIVE YearFrom(_, _)
YearFrom(t, y) == IF t < Day(DaysInYear(y)) THEN y ELSE YearFrom(t - Day(DaysInYear(y)), y + 1)

YearOf(t) == YearFrom(t, 2023)

IsoDates == {<<2023, 1, 1>>, <<2023, 12, 1>>, <<2024, 6, 1>>}

(***************************************************************************)
(* HealthDataCache.                                                        *)
(***************************************************************************)
max_size == 2

Key(kind, id) == <<kind, id>>
Keys == {Key(kind, u) : kind \in {"user_summary", "user_timeline"}, u \in Users}
CacheValues == {None, [v |-> 1], [v |-> 2]}

NewCache == [cache |-> <<>>, access_order |-> <<>>]

NoKey == <<"none", 0>>

\* dict with d[key] = value
DictSet(d, key, value) == [k \in DOMAIN d \cup {key} |-> IF k = key THEN value ELSE d[k]]

\* dict after del d[key]
DictDel(d, key) == [k \in DOMAIN d \ {key} |-> d[k]]

\* get that leaves the recency order alone
GetWithoutPromote(c, key) == c

\* the cache object after get(key)
GetPromote(c, key) ==
    IF key \in DOMAIN c.cache
    THEN [c EXCEPT !.access_order = Append(Remove(c.access_order, key), key)]
    ELSE c

\* what get(key) returns
GetValue(c, key) == IF key \in DOMAIN c.cache THEN c.cache[key] ELSE None

\* the key put evicts, when it evicts one: access_order.popleft()
Oldest(c) == Head(c.access_order)

\* put that evicts only when the cache holds more than max_size entries
putLateEviction(c, key, value) ==
    LET c1 == IF key \in DOMAIN c.cache
              THEN [c EXCEPT !.access_order = Remove(c.access_order, key)]
              ELSE IF Cardinality(DOMAIN c.cache) > max_size
              THEN [cache |-> DictDel(c.cache, Head(c.access_order)),
                    access_order |-> Tail(c.access_order)]
              ELSE c
    IN [cache |-> DictSet(c1.cache, key, value),
        access_order |-> Append(c1.access_order, key)]

\* put that evicts the most recently used key: access_order.pop()
putEvictsNewest(c, key, value) ==
    LET c1 == IF key \in DOMAIN c.cache
              THEN [c EXCEPT !.access_order = Remove(c.access_order, key)]
              ELSE IF Cardinality(DOMAIN c.cache) >= max_size
              THEN [cache |-> DictDel(c.cache, c.access_order[Len(c.access_order)]),
                    access_order |-> SubSeq(c.access_order, 1, Len(c.access_order) - 1)]
              ELSE c
    IN [cache |-> DictSet(c1.cache, key, value),
        access_order |-> Append(c1.access_order, key)]

\* the cache object after put(key, value)
\* the size is tested before the presence of the key
putEvictsOnPresent(c, key, value) ==
    LET c1 == IF Cardinality(DOMAIN c.cache) >= max_size
              THEN [cache |-> DictDel(c.cache, Oldest(c)), access_order |-> Tail(c.access_order)]
              ELSE c
        c2 == IF key \in DOMAIN c1.cache
              THEN [c1 EXCEPT !.access_order = Remove(c1.access_order, key)]
              ELSE c1
    IN [cache |-> DictSet(c2.cache, key, value), access_order |-> Append(c2.access_order, key)]

\* the key is appended to access_order without being taken out first
putWithoutRemove(c, key, value) ==
    LET c1 == IF key \in DOMAIN c.cache THEN c
              ELSE IF Cardinality(DOMAIN c.cache) >= max_size
              THEN [cache |-> DictDel(c.cache, Oldest(c)), access_order |-> Tail(c.access_order)]
              ELSE c
    IN [cache |-> DictSet(c1.cache, key, value), access_order |-> Append(c1.access_order, key)]

put(c, key, value) ==
    LET c1 == IF key \in DOMAIN c.cache
              THEN [c EXCEPT !.access_order = Remove(c.access_order, key)]
              ELSE IF Cardinality(DOMAIN c.cache) >= max_size
              THEN [cache |-> DictDel(c.cache, Oldest(c)),
                    access_order |-> Tail(c.access_order)]
              ELSE c
    IN [cache |-> DictSet(c1.cache, key, value),
        access_order |-> Append(c1.access_order, key)]

(***************************************************************************)
(* heapq on a list of integer tuples; positions are 0-based as in heapq.   *)
(***************************************************************************)
At(h, pos) == h[pos + 1]

SetAt(h, pos, item) == [h EXCEPT ![pos + 1] = item]

RECURSIVE SiftDownLoop(_, _, _, _)
SiftDownLoop(h, startpos, pos, newitem) ==
    IF pos > startpos
    THEN LET parentpos == (pos - 1) \div 2
             parent == At(h, parentpos)
         IN IF TupleLess(newitem, parent)
            THEN SiftDownLoop(SetAt(h, pos, parent), startpos, parentpos, newitem)
            ELSE SetAt(h, pos, newitem)
    ELSE SetAt(h, pos, newitem)

\* heapq._siftdown(heap, startpos, pos)
_siftdown(h, startpos, pos) == SiftDownLoop(h, startpos, pos, At(h, pos))

RECURSIVE SiftUpLoop(_, _, _, _)
SiftUpLoop(h, startpos, pos, newitem) ==
    LET endpos == Len(h)
        leftpos == 2 * pos + 1
        rightpos == leftpos + 1
        childpos == IF rightpos < endpos /\ ~TupleLess(At(h, leftpos), At(h, rightpos))
                    THEN rightpos ELSE leftpos
    IN IF leftpos < endpos
       THEN SiftUpLoop(SetAt(h, pos, At(h, childpos)), startpos, childpos, newitem)
       ELSE _siftdown(SetAt(h, pos, newitem), startpos, pos)

\* heapq._siftup(heap, pos)
_siftup(h, pos) == SiftUpLoop(h, pos, pos, At(h, pos))

\* a push that appends without sifting
heappushUnsifted(h, item) == Append(h, item)

\* the heap after heapq.heappush(heap, item)
heappush(h, item) == _siftdown(Append(h, item), 0, Len(h))

\* what heapq.heappop(heap) returns, for a non-empty heap
HeapTop(h) == h[1]

\* the heap after heapq.heappop(heap), for a non-empty heap
heappop(h) ==
    LET lastelt == h[Len(h)]
        rest == SubSeq(h, 1, Len(h) - 1)
    IN IF rest # <<>> THEN _siftup(SetAt(rest, 0, lastelt), 0) ELSE rest

\* n times heappop: [heap |-> what is left, popped |-> the items in pop order]
RECURSIVE PopN(_, _)
PopN(h, n) ==
    IF n <= 0 \/ h = <<>> THEN [heap |-> h, popped |-> <<>>]
    ELSE LET r == PopN(heappop(h), n - 1)
         IN [heap |-> r.heap, popped |-> <<HeapTop(h)>> \o r.popped]

\* for item in items: heappush(heap, item)
RECURSIVE PushAll(_, _)
PushAll(h, items) ==
    IF items = <<>> THEN h ELSE PushAll(heappush(h, Head(items)), Tail(items))

(***************************************************************************)
(* TreatmentPriorityQueue.                                                 *)
(***************************************************************************)
ModifierCritical == 0
ModifierModerate == 10
ModifierMild == 20

\* the modifiers of CRITICAL and MILD exchanged
severity_modifierExchanged(severity) ==
    IF severity = CRITICAL THEN ModifierMild
    ELSE IF severity = MODERATE THEN ModifierModerate
    ELSE ModifierCritical

severity_modifier(severity) ==
    IF severity = CRITICAL THEN ModifierCritical
    ELSE IF severity = MODERATE THEN ModifierModerate
    ELSE ModifierMild

_calculate_priority(follow_up_date, severity, t) ==
    DaysBetween(follow_up_date, t) + severity_modifier(severity)

\* overdue already when the follow-up date is the current time
IsOverdueAtOrBefore(follow_up_date, t) == follow_up_date <= t

\* whether add_treatment records the id as overdue
IsOverdueAt(follow_up_date, t) == follow_up_date < t

\* the popped items are not pushed back
RestoreHeapSkipped(h, temp_heap) == h

\* the heap once get_next_urgent_treatments has pushed temp_heap back
RestoreHeap(h, temp_heap) == PushAll(h, temp_heap)

\* the ids get_next_urgent_treatments(count) returns
UrgentIds(h, count) ==
    LET popped == PopN(h, Min(count, Len(h))).popped
    IN [i \in 1..Len(popped) |-> popped[i][3]]

\* the heap get_next_urgent_treatments(count) leaves
UrgentHeapAfter(h, count) ==
    LET r == PopN(h, Min(count, Len(h))) IN RestoreHeap(r.heap, r.popped)

\* the clock values: the first one, and one more than a day later
QueueNows == {1, 4}

\* follow-up dates: before the first clock value, between the two, and at the second
FollowUpDates == {0, 3, 4}

\* the store's rowid for the next treatment: a fresh one, or the last one again when
\* that row was deleted in between
TreatmentIds == {Len(urgent_treatments) + 1} \cup ({Len(urgent_treatments)} \ {0})

add_treatment(treatment_id, follow_up_date, severity) ==
    /\ Len(urgent_treatments) < MaxTreatments
    /\ urgent_treatments' =
         heappush(urgent_treatments,
                  <<_calculate_priority(follow_up_date, severity, now), follow_up_date, treatment_id>>)
    /\ overdue_treatments' =
         IF IsOverdueAt(follow_up_date, now)
         THEN overdue_treatments \cup {treatment_id} ELSE overdue_treatments
    /\ treatmentLog' = treatmentLog \cup
         {[id |-> treatment_id, date |-> follow_up_date, severity |-> severity, at |-> now]}
    /\ op' = [name |-> "add_treatment", arg |-> treatment_id]
    /\ ret' = None
    /\ UNCHANGED <<appVars, cacheVars, user_timelines, doctorVars, now, recordLog>>

get_next_urgent_treatments(count) ==
    /\ urgent_treatments' = UrgentHeapAfter(urgent_treatments, count)
    /\ ret' = UrgentIds(urgent_treatments, count)
    /\ op' = [name |-> "get_next_urgent_treatments", arg |-> count]
    /\ UNCHANGED <<appVars, cacheVars, user_timelines, doctorVars, overdue_treatments, treatmentLog,
                   now, recordLog>>

get_overdue_treatments ==
    /\ ret' = overdue_treatments
    /\ op' = [name |-> "get_overdue_treatments", arg |-> 0]
    /\ UNCHANGED <<appVars, cacheVars, user_timelines, doctorVars, queueVars, now, recordLog>>

\* the set object is the engine's own overdue_treatments
ReturnedSetOwn == "overdue_treatments"

\* the set object get_overdue_treatments hands out: overdue_treatments.copy()
ReturnedSet == "copy"

\* the ids a caller may add to or remove from the set it was handed
CallerIds == 1..(MaxTreatments + 1)

\* the caller of get_overdue_treatments changes the set it was handed, held in ret: add
\* is TRUE for set.add(id) and FALSE for set.discard(id)
CallerChangesSet(id, add) ==
    /\ op.name \in {"get_overdue_treatments", "caller_add", "caller_discard"}
    /\ ret' = IF add THEN ret \cup {id} ELSE ret \ {id}
    /\ overdue_treatments' =
         IF ReturnedSet = "overdue_treatments" THEN ret' ELSE overdue_treatments
    /\ op' = [name |-> IF add THEN "caller_add" ELSE "caller_discard", arg |-> id]
    /\ UNCHANGED <<appVars, cacheVars, user_timelines, doctorVars, urgent_treatments, treatmentLog,
                   now, recordLog>>

\* the clock moves on to t
Tick(t) ==
    /\ t > now
    /\ now' = t
    /\ UNCHANGED <<appVars, cacheVars, user_timelines, doctorVars, queueVars, recordLog, op, ret>>

InitQueue ==
    /\ cache = NewCache
    /\ user_timelines = <<>>
    /\ workload_heap = <<>>
    /\ specialization_map = <<>>
    /\ urgent_treatments = <<>>
    /\ overdue_treatments = {}
    /\ now = 1
    /\ op = [name |-> "init", arg |-> 0]
    /\ ret = None
    /\ clock = 0
    /\ lastUse = [k \in Keys |-> 0]
    /\ promoted = NoKey
    /\ runLen = 0
    /\ recordLog = <<>>
    /\ treatmentLog = {}
    /\ AppInit

NextQueue ==
    \/ \E id \in TreatmentIds, d \in FollowUpDates, sev \in Severity :
          add_treatment(id, d, sev)
    \/ \E count \in 0..MaxCount : get_next_urgent_treatments(count)
    \/ get_overdue_treatments
    \/ \E t \in QueueNows : Tick(t)

SpecQueue == InitQueue /\ [][NextQueue]_vars

\* calls on the overdue set, and what a caller does to the set it is handed
NextOverdue ==
    \/ \E id \in TreatmentIds, d \in FollowUpDates : add_treatment(id, d, CRITICAL)
    \/ get_overdue_treatments
    \/ \E id \in CallerIds, add \in BOOLEAN : CallerChangesSet(id, add)
    \/ \E t \in QueueNows : Tick(t)

SpecOverdue == InitQueue /\ [][NextOverdue]_vars

\* the multiset of the items of a list
BagOf(s) == [x \in Range(s) |-> Cardinality({i \in DOMAIN s : s[i] = x})]

\* the least item of a non-empty list of tuples
LeastOf(s) == CHOOSE x \in Range(s) : \A y \in Range(s) : ~TupleLess(y, x)

\* the items of a list of tuples in ascending order
RECURSIVE Ascending(_)
Ascending(s) ==
    IF s = <<>> THEN <<>> ELSE <<LeastOf(s)>> \o Ascending(Remove(s, LeastOf(s)))

\* C3: get_next_urgent_treatments leaves the entries of the queue and the overdue set
\* as they were, and calling it again returns the same ids.
NextUrgentNonDestructive ==
    [][op'.name = "get_next_urgent_treatments" =>
         /\ BagOf(urgent_treatments') = BagOf(urgent_treatments)
         /\ overdue_treatments' = overdue_treatments
         /\ UrgentIds(urgent_treatments', op'.arg) = ret']_vars

NextUrgentNonDestructiveWitness ==
    /\ op.name = "get_next_urgent_treatments"
    /\ op.arg = 2
    /\ Len(ret) = 2
    /\ Len(urgent_treatments) = MaxTreatments
    /\ overdue_treatments # {}

\* C4: get_next_urgent_treatments(k) returns the ids of the min(k, size) least entries
\* in ascending order of <<priority, follow_up_date, treatment_id>>.
NextUrgentAscending ==
    op.name = "get_next_urgent_treatments" =>
        LET least == Take(Ascending(urgent_treatments), op.arg)
        IN /\ Len(ret) = Min(op.arg, Len(urgent_treatments))
           /\ ret = [i \in 1..Len(least) |-> least[i][3]]

\* the entry added later is returned before the one added earlier
NextUrgentAscendingWitness ==
    /\ op.name = "get_next_urgent_treatments"
    /\ Len(ret) = 2
    /\ ret[1] > ret[2]

\* the ids add_treatment was called for with a follow-up date already past
AddedOverdue(log) == {e.id : e \in {x \in log : x.date < x.at}}

\* C8: the overdue set holds exactly the ids whose follow-up date was before the clock
\* when add_treatment was called, and the passing of time does not change it.
OverdueInsertTimeOnly ==
    [][/\ overdue_treatments' = AddedOverdue(treatmentLog')
       /\ now' # now => overdue_treatments' = overdue_treatments]_vars

\* a treatment added before it was due, whose date has passed since, is not overdue
OverdueInsertTimeOnlyWitness ==
    /\ \E e \in treatmentLog : e.date >= e.at /\ e.date < now /\ e.id \notin overdue_treatments
    /\ overdue_treatments # {}

\* the whole days from the time of an add_treatment call to its follow-up date: the
\* integer d with d days <= date - at < d + 1 days
WholeDays(e) ==
    CHOOSE d \in (e.date - e.at - TicksPerDay)..(e.date - e.at + TicksPerDay) :
        /\ d * TicksPerDay <= e.date - e.at
        /\ e.date - e.at < (d + 1) * TicksPerDay

\* the heap entry the formula gives for an add_treatment call
FormulaEntry(e) ==
    <<WholeDays(e) + (CASE e.severity = CRITICAL -> 0
                        [] e.severity = MODERATE -> 10
                        [] e.severity = MILD -> 20),
      e.date, e.id>>

\* C17: the priority stored for a treatment is the whole number of days from the time
\* of the add_treatment call to the follow-up date (negative past the date) plus 0 for
\* CRITICAL, 10 for MODERATE and 20 for MILD; of two treatments added at the same time, a
\* CRITICAL one due in d1 days sorts before a MILD one due in d2 days when d1 < d2 + 20.
PriorityFormula ==
    /\ Range(urgent_treatments) = {FormulaEntry(e) : e \in treatmentLog}
    /\ \A e1, e2 \in treatmentLog :
          (/\ e1.at = e2.at
           /\ e1.severity = CRITICAL
           /\ e2.severity = MILD
           /\ WholeDays(e1) < WholeDays(e2) + 20) =>
              /\ TupleLess(FormulaEntry(e1), FormulaEntry(e2))
              /\ (/\ op.name = "get_next_urgent_treatments"
                  /\ e1.id # e2.id
                  /\ \A e \in treatmentLog : e.id \in {e1.id, e2.id} => e \in {e1, e2}
                  /\ e2.id \in Range(ret)) =>
                     \E i, j \in DOMAIN ret : i < j /\ ret[i] = e1.id /\ ret[j] = e2.id

\* a CRITICAL treatment and a MILD one that is due earlier, and already past its date,
\* were added at the same time, and the CRITICAL one is returned first
PriorityFormulaWitness ==
    /\ op.name = "get_next_urgent_treatments"
    /\ Len(ret) = 2
    /\ \E e1, e2 \in treatmentLog :
          /\ e1.at = e2.at
          /\ e1.severity = CRITICAL
          /\ e2.severity = MILD
          /\ WholeDays(e2) < 0
          /\ WholeDays(e1) > 0
          /\ ret = <<e1.id, e2.id>>

\* C18: adding to or removing from the set get_overdue_treatments returned does not
\* change the overdue set of the engine, and a later get_overdue_treatments returns the
\* membership the engine recorded.
OverdueIsCopy ==
    [][/\ op'.name \in {"caller_add", "caller_discard"} =>
             overdue_treatments' = overdue_treatments
       /\ op'.name = "get_overdue_treatments" => ret' = AddedOverdue(treatmentLog')]_vars

\* a caller has changed the set it was handed, which now differs from the overdue set
\* of the engine
OverdueIsCopyWitness ==
    /\ op.name \in {"caller_add", "caller_discard"}
    /\ overdue_treatments # {}
    /\ ret # overdue_treatments

(***************************************************************************)
(* DoctorAnalytics.                                                        *)
(***************************************************************************)
Specializations == {"cardiology", "dermatology"}
PatientCounts == 0..2

RegisteredDoctors == UNION {Range(specialization_map[sp]) : sp \in DOMAIN specialization_map}

\* the ids get_least_busy_doctors(count) returns
LeastBusyIds(h, count) ==
    LET popped == PopN(h, Min(count, Len(h))).popped
    IN [i \in 1..Len(popped) |-> popped[i][2]]

\* the heap get_least_busy_doctors(count) leaves
LeastBusyHeapAfter(h, count) == PopN(h, Min(count, Len(h))).heap

add_doctor(doctor) ==
    /\ Cardinality(RegisteredDoctors) < MaxDoctors
    /\ specialization_map' =
         DictSet(specialization_map, doctor.specialization,
                 IF doctor.specialization \in DOMAIN specialization_map
                 THEN Append(specialization_map[doctor.specialization], doctor)
                 ELSE <<doctor>>)
    /\ workload_heap' = heappush(workload_heap, <<doctor.patient_count, doctor.doctor_id>>)
    /\ op' = [name |-> "add_doctor", arg |-> doctor.doctor_id]
    /\ ret' = None
    /\ UNCHANGED <<appVars, cacheVars, user_timelines, queueVars, now, recordLog>>

get_least_busy_doctors(count) ==
    /\ workload_heap' = LeastBusyHeapAfter(workload_heap, count)
    /\ ret' = LeastBusyIds(workload_heap, count)
    /\ op' = [name |-> "get_least_busy_doctors", arg |-> count]
    /\ UNCHANGED <<appVars, cacheVars, user_timelines, queueVars, specialization_map, now, recordLog>>

InitDoctors ==
    /\ cache = NewCache
    /\ user_timelines = <<>>
    /\ workload_heap = <<>>
    /\ specialization_map = <<>>
    /\ urgent_treatments = <<>>
    /\ overdue_treatments = {}
    /\ now = 1
    /\ op = [name |-> "init", arg |-> 0]
    /\ ret = None
    /\ clock = 0
    /\ lastUse = [k \in Keys |-> 0]
    /\ promoted = NoKey
    /\ runLen = 0
    /\ recordLog = <<>>
    /\ treatmentLog = {}
    /\ AppInit

NextDoctors ==
    \/ \E sp \in Specializations, pc \in PatientCounts :
          add_doctor([doctor_id |-> Cardinality(RegisteredDoctors) + 1,
                      specialization |-> sp, patient_count |-> pc])
    \/ \E count \in 0..MaxCount : get_least_busy_doctors(count)

SpecDoctors == InitDoctors /\ [][NextDoctors]_vars

\* C2: get_least_busy_doctors leaves the workload ranking as it was, so that calling it
\* again returns the same doctor ids.
LeastBusyNonDestructive ==
    [][op'.name = "get_least_busy_doctors" =>
         /\ workload_heap' = workload_heap
         /\ LeastBusyIds(workload_heap', op'.arg) = ret']_vars

(***************************************************************************)
(* PatientTimeline.  A dict is a function on its keys; a Counter is the    *)
(* list of its <<key, count>> items in insertion order.                    *)
(***************************************************************************)
NewTimeline ==
    [records_by_year |-> <<>>, severity_index |-> <<>>,
     doctor_visits |-> <<>>, condition_frequency |-> <<>>]

\* defaultdict(list): d[key], which adds the key with an empty list when it is missing
DefaultGet(d, key) == IF key \in DOMAIN d THEN d ELSE DictSet(d, key, <<>>)

\* d[key] = [x]: the bucket is replaced
DefaultAppendReplaces(d, key, x) == DictSet(d, key, <<x>>)

\* defaultdict(list): d[key].append(x)
DefaultAppend(d, key, x) == DictSet(d, key, Append(DefaultGet(d, key)[key], x))

\* Counter: c[key] += 1
CounterInc(c, key) ==
    IF \E i \in DOMAIN c : c[i][1] = key
    THEN [i \in DOMAIN c |-> IF c[i][1] = key THEN <<key, c[i][2] + 1>> ELSE c[i]]
    ELSE Append(c, <<key, 1>>)

\* positions sorted by descending rank, with position i put behind those that rank no lower
RECURSIVE InsertBehind(_, _, _)
InsertBehind(sorted, i, ranks) ==
    IF sorted = <<>> THEN <<i>>
    ELSE IF ranks[Head(sorted)] >= ranks[i]
         THEN <<Head(sorted)>> \o InsertBehind(Tail(sorted), i, ranks)
         ELSE <<i>> \o sorted

\* the positions 1..n in the order sorted(..., reverse=True) gives them: stable
RECURSIVE SortedPositions(_, _)
SortedPositions(n, ranks) ==
    IF n = 0 THEN <<>> ELSE InsertBehind(SortedPositions(n - 1, ranks), n, ranks)

\* sorted(s, key=..., reverse=True), ranks[i] being the key of s[i]
SortedReverse(s, ranks) ==
    LET at == SortedPositions(Len(s), ranks) IN [j \in 1..Len(s) |-> s[at[j]]]

\* the bucket left in append order
SortByDateSkipped(records) == records

\* list.sort(key=lambda r: r.record_date, reverse=True)
SortByDate(records) ==
    SortedReverse(records, [i \in 1..Len(records) |-> records[i].record_date])

\* the first items of the Counter, in the order of their first count
most_commonUnsorted(c, limit) == Take(c, limit)

\* Counter.most_common(limit)
most_common(c, limit) == Take(SortedReverse(c, [i \in 1..Len(c) |-> c[i][2]]), limit)

\* the timeline after add_record(record)
add_record(timeline, record) ==
    LET year == YearOf(record.record_date)
        appended == DefaultAppend(timeline.records_by_year, year, record)
    IN [records_by_year |-> [appended EXCEPT ![year] = SortByDate(appended[year])],
        severity_index |-> DefaultAppend(timeline.severity_index, record.severity, record),
        doctor_visits |-> CounterInc(timeline.doctor_visits, record.doctor_id),
        condition_frequency |-> CounterInc(timeline.condition_frequency, record.diagnosis)]

\* the timeline after get_records_by_year(year)
AfterRecordsByYear(timeline, year) ==
    [timeline EXCEPT !.records_by_year = DefaultGet(timeline.records_by_year, year)]

\* the timeline after get_critical_records()
AfterCriticalRecords(timeline) ==
    [timeline EXCEPT !.severity_index = DefaultGet(timeline.severity_index, CRITICAL)]

\* sum(len(records) for records in d.values())
RECURSIVE SumLens(_)
SumLens(d) ==
    IF DOMAIN d = {} THEN 0
    ELSE LET k == CHOOSE k \in DOMAIN d : TRUE
         IN Len(d[k]) + SumLens(DictDel(d, k))

(***************************************************************************)
(* Calls on one PatientTimeline, kept as the timeline of TimelineUser.     *)
(***************************************************************************)
TimelineUser == CHOOSE u \in Users : \A v \in Users : u <= v
Years == {2023, 2024, 2025}

TheTimeline == user_timelines[TimelineUser]

\* add_record(record), while fewer than bound records were added
TimelineAddUpTo(record, bound) ==
    /\ Len(recordLog) < bound
    /\ user_timelines' = [user_timelines EXCEPT ![TimelineUser] = add_record(@, record)]
    /\ recordLog' = Append(recordLog, record)
    /\ op' = [name |-> "add_record", arg |-> record.record_id]
    /\ ret' = None
    /\ UNCHANGED <<appVars, cacheVars, doctorVars, queueVars, now>>

TimelineAddRecord(record) == TimelineAddUpTo(record, MaxTimelineRecords)

TimelineRecordsByYear(year) ==
    /\ user_timelines' = [user_timelines EXCEPT ![TimelineUser] = AfterRecordsByYear(@, year)]
    /\ ret' = AfterRecordsByYear(TheTimeline, year).records_by_year[year]
    /\ op' = [name |-> "get_records_by_year", arg |-> year]
    /\ UNCHANGED <<appVars, cacheVars, doctorVars, queueVars, now, recordLog>>

TimelineCriticalRecords ==
    /\ user_timelines' = [user_timelines EXCEPT ![TimelineUser] = AfterCriticalRecords(@)]
    /\ ret' = AfterCriticalRecords(TheTimeline).severity_index[CRITICAL]
    /\ op' = [name |-> "get_critical_records", arg |-> 0]
    /\ UNCHANGED <<appVars, cacheVars, doctorVars, queueVars, now, recordLog>>

InitTimeline ==
    /\ cache = NewCache
    /\ user_timelines = [u \in {TimelineUser} |-> NewTimeline]
    /\ workload_heap = <<>>
    /\ specialization_map = <<>>
    /\ urgent_treatments = <<>>
    /\ overdue_treatments = {}
    /\ now = Day(340)
    /\ op = [name |-> "init", arg |-> 0]
    /\ ret = None
    /\ clock = 0
    /\ lastUse = [k \in Keys |-> 0]
    /\ promoted = NoKey
    /\ runLen = 0
    /\ recordLog = <<>>
    /\ treatmentLog = {}
    /\ AppInit

NextTimeline ==
    \/ \E doc \in DoctorIds, diag \in Diagnoses, date \in IsoDates :
          TimelineAddRecord(HealthRecord(Len(recordLog) + 1, TimelineUser, doc, diag,
                                         fromisoformat(date)))
    \/ \E year \in Years : TimelineRecordsByYear(year)
    \/ TimelineCriticalRecords

SpecTimeline == InitTimeline /\ [][NextTimeline]_vars

\* how often x occurs in a list
Occurrences(s, x) == Cardinality({i \in DOMAIN s : s[i] = x})

\* C10: the year buckets and the severity buckets each hold as many records as were
\* added, and every added record is once in the bucket of its year, once in the bucket
\* of its severity and in no other bucket.
TimelinePartition ==
    LET by_year == TheTimeline.records_by_year
        by_severity == TheTimeline.severity_index
    IN /\ SumLens(by_year) = Len(recordLog)
       /\ SumLens(by_severity) = Len(recordLog)
       /\ \A i \in DOMAIN recordLog :
             /\ YearOf(recordLog[i].record_date) \in DOMAIN by_year
             /\ recordLog[i].severity \in DOMAIN by_severity
             /\ \A y \in DOMAIN by_year :
                   Occurrences(by_year[y], recordLog[i]) =
                       IF y = YearOf(recordLog[i].record_date) THEN 1 ELSE 0
             /\ \A sev \in DOMAIN by_severity :
                   Occurrences(by_severity[sev], recordLog[i]) =
                       IF sev = recordLog[i].severity THEN 1 ELSE 0

\* all the records are added, in two years and in two severity tiers
TimelinePartitionWitness ==
    /\ Len(recordLog) = MaxTimelineRecords
    /\ Cardinality({y \in DOMAIN TheTimeline.records_by_year :
                       TheTimeline.records_by_year[y] # <<>>}) = 2
    /\ Cardinality({sev \in DOMAIN TheTimeline.severity_index :
                       TheTimeline.severity_index[sev] # <<>>}) = 2

\* C11: after every add_record each year bucket is in descending order of record_date,
\* and records of equal record_date stand in the order in which they were added.
MostRecentFirst ==
    \A y \in DOMAIN TheTimeline.records_by_year :
        LET bucket == TheTimeline.records_by_year[y]
        IN \A i, j \in DOMAIN bucket :
              i < j => \/ bucket[i].record_date > bucket[j].record_date
                       \/ /\ bucket[i].record_date = bucket[j].record_date
                          /\ bucket[i].record_id < bucket[j].record_id

\* an add_record has put a record in front of one that was added before it
MostRecentFirstWitness ==
    /\ op.name = "add_record"
    /\ \E y \in DOMAIN TheTimeline.records_by_year :
          LET bucket == TheTimeline.records_by_year[y]
          IN Len(bucket) >= 2 /\ bucket[1].record_id > bucket[2].record_id

(***************************************************************************)
(* The two counters of one PatientTimeline.                                *)
(***************************************************************************)
CounterDiagnoses == {Diabetes, Ankle}
CounterDate == CHOOSE date \in IsoDates : \A other \in IsoDates : fromisoformat(date) <= fromisoformat(other)

TimelineMostVisitedDoctors(limit) ==
    /\ ret' = most_common(TheTimeline.doctor_visits, limit)
    /\ op' = [name |-> "get_most_visited_doctors", arg |-> limit]
    /\ UNCHANGED <<appVars, cacheVars, user_timelines, doctorVars, queueVars, now, recordLog>>

TimelineCommonConditions(limit) ==
    /\ ret' = most_common(TheTimeline.condition_frequency, limit)
    /\ op' = [name |-> "get_common_conditions", arg |-> limit]
    /\ UNCHANGED <<appVars, cacheVars, user_timelines, doctorVars, queueVars, now, recordLog>>

NextCounters ==
    \/ \E doc \in DoctorIds, diag \in CounterDiagnoses :
          TimelineAddUpTo(HealthRecord(Len(recordLog) + 1, TimelineUser, doc, diag,
                                       fromisoformat(CounterDate)), MaxVisits)
    \/ \E limit \in 0..MaxCount : TimelineMostVisitedDoctors(limit)
    \/ \E limit \in 0..MaxCount : TimelineCommonConditions(limit)

SpecCounters == InitTimeline /\ [][NextCounters]_vars

\* how many of the add_record calls had the key x, keys[i] being the key of the i-th call
CountOf(keys, x) == Cardinality({i \in DOMAIN keys : keys[i] = x})

\* the first add_record call that had the key x
FirstOf(keys, x) == CHOOSE i \in DOMAIN keys : keys[i] = x /\ \A j \in 1..(i - 1) : keys[j] # x

\* the pair <<x, n>> stands before the key y: a higher count, or the same count and
\* counted first
Before(keys, x, y) ==
    \/ CountOf(keys, x) > CountOf(keys, y)
    \/ CountOf(keys, x) = CountOf(keys, y) /\ FirstOf(keys, x) < FirstOf(keys, y)

\* result is the list of the k most counted keys, each with its count
IsTopK(result, k, keys) ==
    /\ Len(result) = Min(k, Cardinality(Range(keys)))
    /\ \A i \in DOMAIN result :
          /\ result[i][1] \in Range(keys)
          /\ result[i][2] = CountOf(keys, result[i][1])
          /\ \A j \in DOMAIN result : i < j => Before(keys, result[i][1], result[j][1])
          /\ \A x \in Range(keys) \ {result[j][1] : j \in DOMAIN result} :
                Before(keys, result[i][1], x)

DoctorKeys == [i \in DOMAIN recordLog |-> recordLog[i].doctor_id]
DiagnosisKeys == [i \in DOMAIN recordLog |-> recordLog[i].diagnosis]

\* C20: get_most_visited_doctors(k) and get_common_conditions(k) return the min(k,
\* distinct) keys of the highest counts in descending order of count, keys of equal
\* count in the order of their first add_record, each with the number of add_record
\* calls that had it.
TopCounts ==
    /\ op.name = "get_most_visited_doctors" => IsTopK(ret, op.arg, DoctorKeys)
    /\ op.name = "get_common_conditions" => IsTopK(ret, op.arg, DiagnosisKeys)

\* the doctor returned first was first visited after the doctor returned second
TopCountsWitness ==
    /\ op.name = "get_most_visited_doctors"
    /\ Len(ret) = 2
    /\ ret[1][2] > ret[2][2]
    /\ FirstOf(DoctorKeys, ret[1][1]) > FirstOf(DoctorKeys, ret[2][1])

(***************************************************************************)
(* HealthMetricsAggregator.                                                *)
(***************************************************************************)
RecentDays == 30
TopDoctors == 3
TopConditions == 5

NoRecords == [error |-> "No health records found"]

\* the summary dict get_user_health_summary builds from a timeline at time t
Summary(timeline, t) ==
    [total_records |-> SumLens(timeline.records_by_year),
     critical_conditions |-> Len(AfterCriticalRecords(timeline).severity_index[CRITICAL]),
     most_visited_doctors |-> most_common(timeline.doctor_visits, TopDoctors),
     common_conditions |-> most_common(timeline.condition_frequency, TopConditions),
     recent_activity |->
         LET d == timeline.records_by_year
             recent(y) == {i \in DOMAIN d[y] : DaysBetween(t, d[y][i].record_date) <= RecentDays}
             RECURSIVE Count(_)
             Count(ys) == IF ys = {} THEN 0
                          ELSE LET y == CHOOSE y \in ys : TRUE
                               IN Cardinality(recent(y)) + Count(ys \ {y})
         IN Count(DOMAIN d)]

\* the key add_health_record invalidates
InvalidatedKey(user_id) == Key("user_timeline", user_id)

\* the key get_user_health_summary reads and writes
SummaryKey(user_id) == Key("user_summary", user_id)

\* a / b of two ints, as the fraction <<a, b>>
TrueDiv(a, b) == IF b = 0 THEN Raised("ZeroDivisionError") ELSE <<a, b>>

\* total_records / total_users
avg_records_per_userUnguarded(total_records, total_users) == TrueDiv(total_records, total_users)

\* total_records / total_users if total_users > 0 else 0
avg_records_per_user(total_records, total_users) ==
    IF total_users > 0 THEN TrueDiv(total_records, total_users) ELSE <<0, 1>>

\* get_system_analytics()
SystemAnalytics(timelines) ==
    LET total_users == Cardinality(DOMAIN timelines)
        RECURSIVE Total(_)
        Total(us) == IF us = {} THEN 0
                     ELSE LET u == CHOOSE u \in us : TRUE
                          IN SumLens(timelines[u].records_by_year) + Total(us \ {u})
        RECURSIVE Dist(_, _)
        Dist(us, sev) == IF us = {} THEN 0
                         ELSE LET u == CHOOSE u \in us : TRUE
                              IN (IF sev \in DOMAIN timelines[u].severity_index
                                  THEN Len(timelines[u].severity_index[sev]) ELSE 0)
                                 + Dist(us \ {u}, sev)
        seen == UNION {DOMAIN timelines[u].severity_index : u \in DOMAIN timelines}
        total_records == Total(DOMAIN timelines)
        avg == avg_records_per_user(total_records, total_users)
    IN IF avg = Raised("ZeroDivisionError") THEN avg
       ELSE [total_users |-> total_users,
             total_records |-> total_records,
             severity_distribution |-> [sev \in seen |-> Dist(DOMAIN timelines, sev)],
             avg_records_per_user |-> avg]

\* the keys add_health_record reads with record_data[...]; file_path is read with .get
RequiredFields == {"record_id", "user_id", "doctor_id", "diagnosis", "record_date"}

\* whether datetime.fromisoformat accepts the date string
IsIsoDate(s) == /\ s[1] >= 1
                /\ s[2] \in 1..12
                /\ s[3] \in 1..DaysInMonth(s[1], s[2])

\* what building the HealthRecord at the head of add_health_record raises, None if nothing
RecordError(record_data) ==
    IF ~(RequiredFields \subseteq DOMAIN record_data) THEN Raised("KeyError")
    ELSE IF ~IsIsoDate(record_data.record_date) THEN Raised("ValueError")
    ELSE None

\* the record add_health_record builds from record_data
RecordOf(record_data) ==
    HealthRecord(record_data.record_id, record_data.user_id, record_data.doctor_id,
                 record_data.diagnosis, fromisoformat(record_data.record_date))

\* user_timelines after "if record.user_id not in self.user_timelines: ... = PatientTimeline()"
WithTimeline(timelines, user_id) ==
    IF user_id \in DOMAIN timelines THEN timelines ELSE DictSet(timelines, user_id, NewTimeline)

\* the timeline is made for record_data['user_id'] before the record is built
AddHealthRecordBuildsLate(timelines, c, record_data) ==
    IF "user_id" \notin DOMAIN record_data
    THEN [user_timelines |-> timelines, cache |-> c, raised |-> Raised("KeyError")]
    ELSE LET made == WithTimeline(timelines, record_data.user_id) IN
         IF RecordError(record_data) # None
         THEN [user_timelines |-> made, cache |-> c, raised |-> RecordError(record_data)]
         ELSE LET record == RecordOf(record_data)
              IN [user_timelines |-> [made EXCEPT ![record.user_id] = add_record(@, record)],
                  cache |-> put(c, InvalidatedKey(record.user_id), None),
                  raised |-> None]

\* add_health_record(record_data) on the given timelines and cache: what they are after
\* the call, and what the call raised
AddHealthRecordOutcome(timelines, c, record_data) ==
    IF RecordError(record_data) # None
    THEN [user_timelines |-> timelines, cache |-> c, raised |-> RecordError(record_data)]
    ELSE LET record == RecordOf(record_data)
             made == WithTimeline(timelines, record.user_id)
         IN [user_timelines |-> [made EXCEPT ![record.user_id] = add_record(@, record)],
             cache |-> put(c, InvalidatedKey(record.user_id), None),
             raised |-> None]

add_health_record(record_data) ==
    LET outcome == AddHealthRecordOutcome(user_timelines, cache, record_data)
    IN /\ Len(recordLog) < MaxRecords
       /\ user_timelines' = outcome.user_timelines
       /\ cache' = outcome.cache
       /\ recordLog' = IF outcome.raised = None
                       THEN Append(recordLog, RecordOf(record_data)) ELSE recordLog
       /\ op' = [name |-> "add_health_record", arg |-> record_data]
       /\ ret' = outcome.raised
       /\ UNCHANGED <<appVars, clock, lastUse, promoted, runLen, doctorVars, queueVars, now>>

\* the error result is stored under the summary key
SummaryOutcomeCachesError(timelines, c, user_id, t) ==
    LET cache_key == SummaryKey(user_id)
        cached == GetValue(c, cache_key)
        looked == GetPromote(c, cache_key)
    IN IF Truthy(cached)
       THEN [user_timelines |-> timelines, cache |-> looked, result |-> cached]
       ELSE IF user_id \notin DOMAIN timelines
       THEN [user_timelines |-> timelines, cache |-> put(looked, cache_key, NoRecords),
             result |-> NoRecords]
       ELSE [user_timelines |-> [timelines EXCEPT ![user_id] = AfterCriticalRecords(@)],
             cache |-> put(looked, cache_key, Summary(timelines[user_id], t)),
             result |-> Summary(timelines[user_id], t)]

\* get_user_health_summary(user_id) at time t on the given timelines and cache: what they
\* are after the call, and what the call returns
SummaryOutcome(timelines, c, user_id, t) ==
    LET cache_key == SummaryKey(user_id)
        cached == GetValue(c, cache_key)
        looked == GetPromote(c, cache_key)
    IN IF Truthy(cached)
       THEN [user_timelines |-> timelines, cache |-> looked, result |-> cached]
       ELSE IF user_id \notin DOMAIN timelines
       THEN [user_timelines |-> timelines, cache |-> looked, result |-> NoRecords]
       ELSE [user_timelines |-> [timelines EXCEPT ![user_id] = AfterCriticalRecords(@)],
             cache |-> put(looked, cache_key, Summary(timelines[user_id], t)),
             result |-> Summary(timelines[user_id], t)]

get_user_health_summary(user_id) ==
    LET outcome == SummaryOutcome(user_timelines, cache, user_id, now)
    IN /\ op' = [name |-> "get_user_health_summary", arg |-> user_id]
       /\ ret' = outcome.result
       /\ cache' = outcome.cache
       /\ user_timelines' = outcome.user_timelines
       /\ UNCHANGED <<appVars, clock, lastUse, promoted, runLen, doctorVars, queueVars, now, recordLog>>

get_system_analytics ==
    /\ op' = [name |-> "get_system_analytics", arg |-> 0]
    /\ ret' = SystemAnalytics(user_timelines)
    /\ UNCHANGED <<appVars, cacheVars, user_timelines, doctorVars, queueVars, now, recordLog>>

\* the clock values: late in 2023, and in the middle of 2024
AggregatorNows == {Day(340), Day(530)}

Init ==
    /\ cache = NewCache
    /\ user_timelines = <<>>
    /\ workload_heap = <<>>
    /\ specialization_map = <<>>
    /\ urgent_treatments = <<>>
    /\ overdue_treatments = {}
    /\ now = Day(340)
    /\ op = [name |-> "init", arg |-> 0]
    /\ ret = None
    /\ clock = 0
    /\ lastUse = [k \in Keys |-> 0]
    /\ promoted = NoKey
    /\ runLen = 0
    /\ recordLog = <<>>
    /\ treatmentLog = {}
    /\ AppInit

Next ==
    \/ \E u \in Users, doc \in DoctorIds, diag \in Diagnoses, date \in IsoDates :
          add_health_record([record_id |-> Len(recordLog) + 1, user_id |-> u,
                             doctor_id |-> doc, diagnosis |-> diag, record_date |-> date])
    \/ \E u \in Users \cup {UnknownUser} : get_user_health_summary(u)
    \/ get_system_analytics
    \/ \E t \in AggregatorNows : Tick(t)

Spec == Init /\ [][Next]_vars

\* how many records were added for a user
AddedFor(user_id) == Cardinality({i \in DOMAIN recordLog : recordLog[i].user_id = user_id})

\* C1: get_user_health_summary(u) for a known user returns total_records equal to the
\* number of records added for u so far.
SummaryCountsAddedRecords ==
    (op.name = "get_user_health_summary" /\ op.arg \in DOMAIN user_timelines) =>
        ret.total_records = AddedFor(op.arg)

\* C9: a call of get_user_health_summary changes neither what get_system_analytics
\* returns nor the year and severity buckets of any user.
SummaryHasNoSideEffects ==
    [][op'.name = "get_user_health_summary" =>
         /\ SystemAnalytics(user_timelines') = SystemAnalytics(user_timelines)
         /\ \A u \in DOMAIN user_timelines :
               /\ user_timelines'[u].records_by_year = user_timelines[u].records_by_year
               /\ user_timelines'[u].severity_index = user_timelines[u].severity_index]_vars

(***************************************************************************)
(* Calls on the aggregator, among them calls with record_data that         *)
(* add_health_record rejects.                                              *)
(***************************************************************************)
IngestDoctor == CHOOSE d \in DoctorIds : \A e \in DoctorIds : d <= e
IngestDiagnoses == {Diabetes, Ankle}
IngestDates == {<<2023, 12, 1>>, <<2024, 6, 1>>}

\* date strings fromisoformat rejects: the 30th of February, a 13th month
BadDates == {<<2023, 2, 30>>, <<2023, 13, 1>>}

\* record_data without one key
Without(record_data, f) == [k \in DOMAIN record_data \ {f} |-> record_data[k]]

RecordData(u, diag, date) ==
    [record_id |-> Len(recordLog) + 1, user_id |-> u, doctor_id |-> IngestDoctor,
     diagnosis |-> diag, record_date |-> date]

NextIngest ==
    \/ \E u \in Users, diag \in IngestDiagnoses, date \in IngestDates :
          add_health_record(RecordData(u, diag, date))
    \/ \E f \in RequiredFields :
          add_health_record(Without(RecordData(TimelineUser, Diabetes, <<2023, 12, 1>>), f))
    \/ \E u \in Users, date \in BadDates :
          add_health_record(RecordData(u, Diabetes, date))
    \/ \E u \in Users \cup {UnknownUser} : get_user_health_summary(u)
    \/ get_system_analytics

SpecIngest == Init /\ [][NextIngest]_vars

\* Counter: c[key]
CounterValue(c, key) ==
    IF \E i \in DOMAIN c : c[i][1] = key
    THEN c[CHOOSE i \in DOMAIN c : c[i][1] = key][2]
    ELSE 0

\* d[key] of a dict of lists, the empty list for a missing key
Bucket(d, key) == IF key \in DOMAIN d THEN d[key] ELSE <<>>

\* C14: an add_health_record that fails (a required field is missing, or record_date
\* is not a date) leaves user_timelines, every index of every timeline and the cache as
\* they were; one that succeeds adds the record to the bucket of its year and of its
\* severity and adds one to the count of its doctor and of its diagnosis.
AllOrNothingAdd ==
    [][op'.name = "add_health_record" =>
         LET data == op'.arg
             rejected == \/ ~(RequiredFields \subseteq DOMAIN data)
                         \/ data.record_date \in BadDates
         IN IF rejected
            THEN /\ ret' \in {Raised("KeyError"), Raised("ValueError")}
                 /\ user_timelines' = user_timelines
                 /\ cache' = cache
            ELSE LET record == recordLog'[Len(recordLog')]
                     before == IF data.user_id \in DOMAIN user_timelines
                               THEN user_timelines[data.user_id] ELSE NewTimeline
                     after == user_timelines'[data.user_id]
                 IN /\ ret' = None
                    /\ Len(recordLog') = Len(recordLog) + 1
                    /\ record.record_id = data.record_id
                    /\ Occurrences(Bucket(after.records_by_year, data.record_date[1]), record)
                         = Occurrences(Bucket(before.records_by_year, data.record_date[1]), record) + 1
                    /\ Occurrences(Bucket(after.severity_index, record.severity), record)
                         = Occurrences(Bucket(before.severity_index, record.severity), record) + 1
                    /\ CounterValue(after.doctor_visits, data.doctor_id)
                         = CounterValue(before.doctor_visits, data.doctor_id) + 1
                    /\ CounterValue(after.condition_frequency, data.diagnosis)
                         = CounterValue(before.condition_frequency, data.diagnosis) + 1]_vars

\* an add_health_record for a user without a timeline has failed on its date, while
\* another user has a timeline and the cache holds an entry
AllOrNothingAddWitness ==
    /\ op.name = "add_health_record"
    /\ ret = Raised("ValueError")
    /\ op.arg.user_id \notin DOMAIN user_timelines
    /\ user_timelines # <<>>
    /\ DOMAIN cache.cache # {}

\* C15: get_user_health_summary for a user without a timeline returns the result
\* {"error": "No health records found"}, makes no timeline for that user and leaves the
\* cache as it was.
UnknownUserSummary ==
    [][(op'.name = "get_user_health_summary" /\ op'.arg \notin DOMAIN user_timelines) =>
         /\ ret' = NoRecords
         /\ user_timelines' = user_timelines
         /\ cache' = cache]_vars

\* the summary of a user without a timeline was asked for while another user has a
\* timeline and a cached summary
UnknownUserSummaryWitness ==
    /\ op.name = "get_user_health_summary"
    /\ op.arg \notin DOMAIN user_timelines
    /\ ret = NoRecords
    /\ \E u \in DOMAIN user_timelines : SummaryKey(u) \in DOMAIN cache.cache

\* the user ids that received a record
UsersWithRecords == {recordLog[i].user_id : i \in DOMAIN recordLog}

\* C19: get_system_analytics raises nothing; total_users is the number of distinct
\* user ids that received a record, total_records the number of add_health_record calls
\* that succeeded, and with no user all three of total_users, total_records and
\* avg_records_per_user are 0.
SystemAnalyticsTotal ==
    op.name = "get_system_analytics" =>
        /\ ret # Raised("ZeroDivisionError")
        /\ ret.total_users = Cardinality(UsersWithRecords)
        /\ ret.total_records = Len(recordLog)
        /\ UsersWithRecords = {} =>
              /\ ret.total_users = 0
              /\ ret.total_records = 0
              /\ ret.avg_records_per_user = <<0, 1>>

\* the analytics were asked for while no record had been added
SystemAnalyticsTotalWitness ==
    /\ op.name = "get_system_analytics"
    /\ user_timelines = <<>>
    /\ ret.total_users = 0

(***************************************************************************)
(* Construction of one HealthRecord from a diagnosis text put together     *)
(* from two words in a letter case, and a severity argument.               *)
(***************************************************************************)
Flu == <<"f","l","u">>
NoWord == <<>>

\* the words a diagnosis is put together from
Words == Range(critical_keywords) \cup Range(moderate_keywords) \cup {Flu, NoWord}

Casings == {"lower", "upper", "title"}

\* str.upper(), one character
UpperChar(c) ==
    IF \E i \in 1..26 : LowerCase[i] = c
    THEN UpperCase[CHOOSE i \in 1..26 : LowerCase[i] = c]
    ELSE c

\* the text "first second" in a letter case
DiagnosisText(first, second, casing) ==
    LET text == first \o <<" ">> \o second
    IN CASE casing = "lower" -> text
         [] casing = "upper" -> [i \in 1..Len(text) |-> UpperChar(text[i])]
         [] casing = "title" -> [i \in 1..Len(text) |->
                                   IF i = 1 \/ text[i - 1] = " " THEN UpperChar(text[i])
                                   ELSE text[i]]

\* the one construction of a run
Construct(first, second, casing, severity) ==
    /\ op.name = "init"
    /\ ret' = HealthRecordWith(1, TimelineUser, IngestDoctor,
                               DiagnosisText(first, second, casing), now, severity)
    /\ op' = [name |-> "HealthRecord",
              arg |-> [first |-> first, second |-> second, casing |-> casing,
                       severity |-> severity]]
    /\ UNCHANGED <<appVars, cacheVars, user_timelines, doctorVars, queueVars, now, recordLog>>

NextClassify ==
    \E first \in Words, second \in Words, casing \in Casings, severity \in Severity :
        Construct(first, second, casing, severity)

SpecClassify == Init /\ [][NextClassify]_vars

\* C16: the severity of a HealthRecord is CRITICAL when its diagnosis holds a critical
\* keyword (also when it holds a moderate keyword as well), else MODERATE when it holds a
\* moderate keyword, else MILD, whatever the letter case of the text and whatever
\* severity was passed to the constructor; it is one of the three tiers.
ClassifierDominance ==
    op.name = "HealthRecord" =>
        LET words == {op.arg.first, op.arg.second}
        IN /\ ret.severity \in Severity
           /\ ret.severity =
                 IF words \cap Range(critical_keywords) # {} THEN CRITICAL
                 ELSE IF words \cap Range(moderate_keywords) # {} THEN MODERATE
                 ELSE MILD

\* a record was built from an upper-case text with a moderate keyword before a critical
\* one, and MILD was passed as its severity
ClassifierDominanceWitness ==
    /\ op.name = "HealthRecord"
    /\ op.arg.first \in Range(moderate_keywords)
    /\ op.arg.second \in Range(critical_keywords)
    /\ op.arg.casing = "upper"
    /\ op.arg.severity = MILD
    /\ ret.severity = CRITICAL

(***************************************************************************)
(* Calls on the cache alone.                                               *)
(***************************************************************************)
Stored == DOMAIN cache.cache

CacheFull == Cardinality(Stored) >= max_size

CacheGet(key) ==
    /\ clock < MaxCacheOps
    /\ cache' = GetPromote(cache, key)
    /\ ret' = GetValue(cache, key)
    /\ op' = [name |-> "get", arg |-> key]
    /\ clock' = clock + 1
    /\ lastUse' = IF key \in Stored THEN [lastUse EXCEPT ![key] = clock + 1] ELSE lastUse
    /\ promoted' = IF key \in Stored /\ CacheFull THEN key ELSE NoKey
    /\ runLen' = 0
    /\ UNCHANGED <<appVars, user_timelines, doctorVars, queueVars, now, recordLog>>

CachePut(key, value) ==
    /\ clock < MaxCacheOps
    /\ cache' = put(cache, key, value)
    /\ ret' = None
    /\ op' = [name |-> "put", arg |-> key, value |-> value, present |-> key \in Stored]
    /\ clock' = clock + 1
    /\ lastUse' = [lastUse EXCEPT ![key] = clock + 1]
    /\ IF key \notin Stored /\ promoted # NoKey /\ runLen < max_size
       THEN promoted' = promoted /\ runLen' = runLen + 1
       ELSE promoted' = NoKey /\ runLen' = 0
    /\ UNCHANGED <<appVars, user_timelines, doctorVars, queueVars, now, recordLog>>

InitCache ==
    /\ cache = NewCache
    /\ user_timelines = <<>>
    /\ workload_heap = <<>>
    /\ specialization_map = <<>>
    /\ urgent_treatments = <<>>
    /\ overdue_treatments = {}
    /\ now = 0
    /\ op = [name |-> "init", arg |-> 0]
    /\ ret = None
    /\ clock = 0
    /\ lastUse = [k \in Keys |-> 0]
    /\ promoted = NoKey
    /\ runLen = 0
    /\ recordLog = <<>>
    /\ treatmentLog = {}
    /\ AppInit

NextCache ==
    \/ \E key \in Keys : CacheGet(key)
    \/ \E key \in Keys, value \in CacheValues : CachePut(key, value)

SpecCache == InitCache /\ [][NextCache]_vars

\* C5: the number of stored entries never exceeds the capacity.
CacheCapacityBound == Cardinality(Stored) <= max_size

\* a put of a new key has just been made on a full cache, and the cache is still full
CacheCapacityWitness ==
    /\ op.name = "put"
    /\ Cardinality(Stored) = max_size
    /\ \E k \in Keys : lastUse[k] > 0 /\ k \notin Stored

\* the stored key whose last get-hit or put is the oldest
LeastRecentlyUsed == CHOOSE k \in Stored : \A j \in Stored : lastUse[k] <= lastUse[j]

\* C6: a put of a new key into a cache holding max_size entries removes exactly the
\* least-recently-used key and nothing else; any other put removes nothing.
StrictLRUEviction ==
    [][(op'.name = "put" /\ clock' # clock) =>
         IF op'.arg \notin Stored /\ Cardinality(Stored) = max_size
         THEN /\ Stored \ DOMAIN cache'.cache = {LeastRecentlyUsed}
              /\ \A k \in Stored \ {LeastRecentlyUsed} : cache'.cache[k] = cache.cache[k]
         ELSE /\ Stored \subseteq DOMAIN cache'.cache
              /\ \A k \in Stored \ {op'.arg} : cache'.cache[k] = cache.cache[k]]_vars

\* a key that was not the first one used has been evicted, and every stored key was
\* used after it
StrictLRUWitness ==
    /\ op.name = "put"
    /\ Cardinality(Stored) = max_size
    /\ \E k \in Keys \ Stored :
          /\ lastUse[k] > 1
          /\ \A j \in Stored : lastUse[j] > lastUse[k]

\* C7: a key hit by a get on a full cache survives the next max_size - 1 puts of new
\* keys and is evicted by the max_size-th.
GetPromotes ==
    promoted # NoKey =>
        /\ runLen < max_size => promoted \in Stored
        /\ runLen = max_size => promoted \notin Stored

GetPromotesWitness ==
    /\ promoted # NoKey
    /\ runLen = max_size - 1
    /\ promoted \in Stored
    /\ op.name = "put"

(***************************************************************************)
(* Request handlers of app.py.  Each handler thread takes one request at a *)
(* time and runs it in steps; a step is what the thread does between two   *)
(* points at which another thread can run.                                 *)
(***************************************************************************)
retries == 5
UrgentCount == 10

engineVars == <<cacheVars, user_timelines, doctorVars, queueVars, now, recordLog>>

\* the JSON body of POST /health_records
AppRecordData ==
    [user_id |-> TimelineUser, doctor_id |-> IngestDoctor, diagnosis |-> Diabetes,
     record_date |-> <<2023, 12, 1>>]

\* the JSON bodies of POST /treatment: with and without follow_up_date
AppTreatmentData ==
    {[record_id |-> 1, follow_up_date |-> f] : f \in {None, <<2023, 12, 1>>}}

MaxOf(S) == CHOOSE x \in S : \A y \in S : y <= x

\* cursor.lastrowid after an INSERT into a table with the given row ids
lastrowid(ids) == MaxOf(ids \cup {0}) + 1

\* a request arrives at an idle handler
Receive(h, kind, data) ==
    /\ handlers[h].pc = "idle"
    /\ requests < MaxRequests
    /\ requests' = requests + 1
    /\ handlers' = [handlers EXCEPT ![h] =
          [IdleHandler EXCEPT !.kind = kind, !.data = data,
                              !.pc = IF kind = "get_urgent_treatments" THEN "urgent" ELSE "lock"]]
    /\ UNCHANGED <<engineVars, write_lock, store, faults, op, ret>>

\* execute_write: with _write_lock
AcquireWriteLock(h) ==
    /\ handlers[h].pc = "lock"
    /\ write_lock = 0
    /\ write_lock' = h
    /\ handlers' = [handlers EXCEPT ![h].pc = "insert"]
    /\ UNCHANGED <<engineVars, store, requests, faults, op, ret>>

\* _insert: cursor.execute("INSERT ..."), record_id / treatment_id = cursor.lastrowid
ExecuteInsert(h) ==
    LET me == handlers[h]
        row == IF me.kind = "add_health_record"
               THEN [table |-> "health_records", id |-> lastrowid(DOMAIN store.health_records),
                     diagnosis |-> me.data.diagnosis]
               ELSE [table |-> "treatment", id |-> lastrowid(store.treatment)]
    IN /\ me.pc = "insert"
       /\ store' = [store EXCEPT !.pending = row]
       /\ handlers' = [handlers EXCEPT ![h].rowid = row.id, ![h].pc = "engine"]
       /\ UNCHANGED <<engineVars, write_lock, requests, faults, op, ret>>

\* the exceptions that leave fn(): sqlite3.OperationalError of a locked database and
\* of a missing table, sqlite3.IntegrityError, and KeyError of a body without a field
DatabaseLocked ==
    [type |-> "OperationalError", message |-> <<"d","a","t","a","b","a","s","e"," ","i","s"," ","l","o","c","k","e","d">>]

NoSuchTable ==
    [type |-> "OperationalError", message |-> <<"n","o"," ","s","u","c","h"," ","t","a","b","l","e",":"," ","t","r","e","a","t","m","e","n","t">>]

IntegrityError ==
    [type |-> "IntegrityError", message |-> <<"F","O","R","E","I","G","N"," ","K","E","Y"," ","c","o","n","s","t","r","a","i","n","t"," ","f","a","i","l","e","d">>]

KeyError ==
    [type |-> "KeyError", message |-> <<"'","m","e","d","i","c","a","t","i","o","n","'">>]

Exceptions == {DatabaseLocked, NoSuchTable, IntegrityError, KeyError}

\* every OperationalError is taken for a locked database
ShouldRetryAnyMessage(message, attempt) == attempt < retries - 1

\* 'locked' in str(e).lower() and attempt < retries - 1
ShouldRetry(message, attempt) ==
    /\ Contains(Lower(message), <<"l","o","c","k","e","d">>)
    /\ attempt < retries - 1

\* execute_write after exception e has left fn(): the lock is released; after an
\* OperationalError of a locked database the call is made again unless this was the
\* last attempt, every other exception goes to the route, which answers 400
AfterException(h, e) ==
    /\ write_lock' = 0
    /\ store' = [store EXCEPT !.pending = None]
    /\ IF e.type = "OperationalError" /\ ShouldRetry(e.message, handlers[h].attempt)
       THEN /\ handlers' = [handlers EXCEPT ![h].attempt = @ + 1, ![h].pc = "lock",
                                            ![h].rowid = 0, ![h].e = e]
            /\ UNCHANGED <<op, ret>>
       ELSE /\ handlers' = [handlers EXCEPT ![h] = IdleHandler]
            /\ op' = [name |-> handlers[h].kind, arg |-> h]
            /\ ret' = [status |-> 400, raised |-> e]

\* execute_write after sqlite3.OperationalError('database is locked') has left fn()
AfterOperationalError(h) ==
    /\ faults < MaxFaults
    /\ faults' = faults + 1
    /\ AfterException(h, DatabaseLocked)

\* the INSERT raises OperationalError: the database is locked by another process
ExecuteInsertLocked(h) ==
    /\ handlers[h].pc = "insert"
    /\ AfterOperationalError(h)
    /\ UNCHANGED <<engineVars, requests>>

\* _insert of POST /health_records: health_aggregator.add_health_record(record_data)
EngineAddHealthRecord(h) ==
    LET me == handlers[h]
        record_data == [record_id |-> me.rowid, user_id |-> me.data.user_id,
                        doctor_id |-> me.data.doctor_id, diagnosis |-> me.data.diagnosis,
                        record_date |-> me.data.record_date]
        outcome == AddHealthRecordOutcome(user_timelines, cache, record_data)
    IN /\ me.pc = "engine"
       /\ me.kind = "add_health_record"
       /\ user_timelines' = outcome.user_timelines
       /\ cache' = outcome.cache
       /\ recordLog' = Append(recordLog, RecordOf(record_data))
       /\ handlers' = [handlers EXCEPT ![h].pc = "commit"]
       /\ UNCHANGED <<clock, lastUse, promoted, runLen, doctorVars, queueVars, now,
                      write_lock, store, requests, faults, op, ret>>

\* _insert of POST /treatment: with a follow_up_date and a health_records row of the
\* record_id, treatment_queue.add_treatment(treatment_id, follow_up_date, severity)
EngineAddTreatment(h) ==
    LET me == handlers[h]
        routed == /\ Truthy(me.data.follow_up_date)
                  /\ me.data.record_id \in DOMAIN store.health_records
        follow_up_date == fromisoformat(me.data.follow_up_date)
        severity == _calculate_severity(store.health_records[me.data.record_id])
    IN /\ me.pc = "engine"
       /\ me.kind = "add_treatment"
       /\ IF routed
          THEN /\ urgent_treatments' =
                    heappush(urgent_treatments,
                             <<_calculate_priority(follow_up_date, severity, now),
                               follow_up_date, me.rowid>>)
               /\ overdue_treatments' =
                    IF IsOverdueAt(follow_up_date, now)
                    THEN overdue_treatments \cup {me.rowid} ELSE overdue_treatments
               /\ treatmentLog' = treatmentLog \cup
                    {[id |-> me.rowid, date |-> follow_up_date, severity |-> severity,
                      at |-> now]}
          ELSE UNCHANGED queueVars
       /\ handlers' = [handlers EXCEPT ![h].pc = "commit"]
       /\ UNCHANGED <<cacheVars, user_timelines, doctorVars, now, recordLog,
                      write_lock, store, requests, faults, op, ret>>

\* the store once the open transaction is committed
Committed(st) ==
    IF st.pending.table = "health_records"
    THEN [st EXCEPT !.health_records = DictSet(@, st.pending.id, st.pending.diagnosis),
                    !.pending = None]
    ELSE [st EXCEPT !.treatment = @ \cup {st.pending.id}, !.pending = None]

\* the end of "with get_connection() as conn": the transaction is committed, the lock is
\* released and the response is sent
Commit(h) ==
    /\ handlers[h].pc = "commit"
    /\ store' = Committed(store)
    /\ write_lock' = 0
    /\ handlers' = [handlers EXCEPT ![h] = IdleHandler]
    /\ op' = [name |-> handlers[h].kind, arg |-> h]
    /\ ret' = [status |-> 201, id |-> handlers[h].rowid]
    /\ UNCHANGED <<engineVars, requests, faults>>

\* the commit raises OperationalError: the row is not written
CommitLocked(h) ==
    /\ handlers[h].pc = "commit"
    /\ AfterOperationalError(h)
    /\ UNCHANGED <<engineVars, requests>>

\* get_next_urgent_treatments(10): range(min(count, len(self.urgent_treatments)))
UrgentBegin(h) ==
    LET n == Min(UrgentCount, Len(urgent_treatments))
    IN /\ handlers[h].pc = "urgent"
       /\ handlers' = [handlers EXCEPT ![h].n = n,
                                        ![h].pc = IF n > 0 THEN "pop" ELSE "restore"]
       /\ UNCHANGED <<engineVars, write_lock, store, requests, faults, op, ret>>

\* one turn of the loop: if self.urgent_treatments: heappop, urgent.append, temp_heap.append
UrgentPop(h) ==
    LET me == handlers[h]
    IN /\ me.pc = "pop"
       /\ IF urgent_treatments # <<>>
          THEN /\ urgent_treatments' = heappop(urgent_treatments)
               /\ handlers' = [handlers EXCEPT
                      ![h].urgent = Append(@, HeapTop(urgent_treatments)[3]),
                      ![h].temp_heap = Append(@, HeapTop(urgent_treatments)),
                      ![h].n = @ - 1,
                      ![h].pc = IF me.n > 1 THEN "pop" ELSE "restore"]
          ELSE /\ UNCHANGED urgent_treatments
               /\ handlers' = [handlers EXCEPT
                      ![h].n = @ - 1,
                      ![h].pc = IF me.n > 1 THEN "pop" ELSE "restore"]
       /\ UNCHANGED <<cacheVars, user_timelines, doctorVars, overdue_treatments,
                      treatmentLog, now, recordLog, write_lock, store, requests, faults,
                      op, ret>>

\* one turn of "for item in temp_heap: heappush(self.urgent_treatments, item)"
UrgentRestore(h) ==
    LET me == handlers[h]
    IN /\ me.pc = "restore"
       /\ me.temp_heap # <<>>
       /\ urgent_treatments' = heappush(urgent_treatments, Head(me.temp_heap))
       /\ handlers' = [handlers EXCEPT ![h].temp_heap = Tail(@)]
       /\ UNCHANGED <<cacheVars, user_timelines, doctorVars, overdue_treatments,
                      treatmentLog, now, recordLog, write_lock, store, requests, faults,
                      op, ret>>

\* the response of GET /treatments/urgent: the urgent ids and the overdue ids
UrgentRespond(h) ==
    LET me == handlers[h]
    IN /\ me.pc = "restore"
       /\ me.temp_heap = <<>>
       /\ op' = [name |-> "get_urgent_treatments", arg |-> h]
       /\ ret' = [urgent |-> me.urgent, overdue |-> overdue_treatments]
       /\ handlers' = [handlers EXCEPT ![h] = IdleHandler]
       /\ UNCHANGED <<engineVars, write_lock, store, requests, faults>>

NextApp ==
    \E h \in Handlers :
        \/ Receive(h, "add_health_record", AppRecordData)
        \/ \E data \in AppTreatmentData : Receive(h, "add_treatment", data)
        \/ Receive(h, "get_urgent_treatments", None)
        \/ AcquireWriteLock(h)
        \/ ExecuteInsert(h)
        \/ ExecuteInsertLocked(h)
        \/ EngineAddHealthRecord(h)
        \/ EngineAddTreatment(h)
        \/ Commit(h)
        \/ CommitLocked(h)
        \/ UrgentBegin(h)
        \/ UrgentPop(h)
        \/ UrgentRestore(h)
        \/ UrgentRespond(h)

SpecApp == Init /\ [][NextApp]_vars

\* the handler is at a step that reads or changes the urgency heap
TouchesHeap(h) ==
    \/ handlers[h].pc \in {"urgent", "pop"}
    \/ handlers[h].pc = "restore" /\ handlers[h].temp_heap # <<>>
    \/ handlers[h].pc = "engine" /\ handlers[h].kind = "add_treatment"

\* C12: the operations that change the urgency heap exclude each other: whenever a
\* handler takes a step that reads or changes the heap, no other handler is between
\* the pops and the pushes of get_next_urgent_treatments, so that no handler sees the
\* heap without the entries another handler has taken out for the moment.
SerializedMutation ==
    [][\A g \in Handlers :
          (TouchesHeap(g) /\ handlers'[g] # handlers[g]) =>
              \A h \in Handlers \ {g} : handlers[h].temp_heap = <<>>]_vars

\* C13: a health record reaches add_health_record only once its row is committed: the
\* engine holds no record whose row is not committed, and no two records of one row.
PushAfterPersist ==
    /\ \A i \in DOMAIN recordLog : recordLog[i].record_id \in DOMAIN store.health_records
    /\ \A i, j \in DOMAIN recordLog :
          recordLog[i].record_id = recordLog[j].record_id => i = j

(***************************************************************************)
(* Further properties of the cache, under SpecCache.                       *)
(***************************************************************************)
\* C21: a put on a stored key writes the new value, makes the key the most recently
\* used one, removes no key and leaves the number of entries as it was, also when the
\* cache is full.
PutOnPresentKey ==
    [][(op'.name = "put" /\ clock' # clock /\ op'.arg \in Stored) =>
         /\ cache'.cache[op'.arg] = op'.value
         /\ DOMAIN cache'.cache = Stored
         /\ \A k \in Stored \ {op'.arg} : cache'.cache[k] = cache.cache[k]
         /\ cache'.access_order[Len(cache'.access_order)] = op'.arg
         /\ Remove(cache'.access_order, op'.arg) = Remove(cache.access_order, op'.arg)
         /\ \A k \in Stored \ {op'.arg} : lastUse'[k] < lastUse'[op'.arg]]_vars

\* a put was made on a stored key of a full cache whose other key was used after it
PutOnPresentKeyWitness ==
    /\ op.name = "put"
    /\ op.present
    /\ Cardinality(Stored) = max_size
    /\ cache.access_order[Len(cache.access_order)] = op.arg
    /\ \E k \in Stored \ {op.arg} : lastUse[k] = clock - 1

\* C24: access_order holds exactly the keys of the cache dict, each of them once, so
\* that the key an eviction takes from access_order is a key of the dict.
CacheStructure ==
    /\ Range(cache.access_order) = Stored
    /\ Len(cache.access_order) = Cardinality(Stored)

\* a get has hit a key of a full cache after some key was evicted
CacheStructureWitness ==
    /\ op.name = "get"
    /\ ret # None
    /\ Cardinality(Stored) = max_size
    /\ \E k \in Keys \ Stored : lastUse[k] > 0

(***************************************************************************)
(* Order of the urgent treatments across insert times, under SpecQueue.    *)
(***************************************************************************)
\* C22: of two queued treatments of the same severity that were added at different
\* times, get_next_urgent_treatments returns the one with the earlier follow-up date
\* before the one with the later follow-up date.
DueDateOrder ==
    op.name = "get_next_urgent_treatments" =>
        \A e1, e2 \in treatmentLog :
            (/\ e1.severity = e2.severity
             /\ e1.at # e2.at
             /\ e1.date < e2.date
             /\ e1.id # e2.id
             /\ \A e \in treatmentLog : e.id \in {e1.id, e2.id} => e \in {e1, e2}
             /\ e2.id \in Range(ret)) =>
                \E i, j \in DOMAIN ret : i < j /\ ret[i] = e1.id /\ ret[j] = e2.id

(***************************************************************************)
(* Routing of a created treatment to the urgency queue, under SpecApp.     *)
(***************************************************************************)
\* the places of the entries of a treatment id: in the heap (place 0) or in the
\* temp_heap of a get_next_urgent_treatments call that has popped and not yet restored
QueuedEntries(heap, hs, treatment_id) ==
    {<<0, i>> : i \in {j \in DOMAIN heap : heap[j][3] = treatment_id}} \cup
    UNION {{<<g, i>> : i \in {j \in DOMAIN hs[g].temp_heap :
                                  hs[g].temp_heap[j][3] = treatment_id}} : g \in Handlers}

QueuedEntry(heap, hs, place) ==
    IF place[1] = 0 THEN heap[place[2]] ELSE hs[place[1]].temp_heap[place[2]]

\* C23: when the row of a treatment is committed, the urgency queue holds exactly one
\* entry of its id, with the priority of the severity of the diagnosis of the
\* referenced health record, if the request has a follow-up date and the record is in
\* the store; otherwise the queue holds no entry of its id and the overdue set does not
\* hold the id.
TreatmentRouting ==
    [][\A h \in Handlers :
         (/\ handlers[h].pc = "commit"
          /\ handlers[h].kind = "add_treatment"
          /\ handlers[h].rowid \in store'.treatment \ store.treatment) =>
            LET treatment_id == handlers[h].rowid
                data == handlers[h].data
                entries == QueuedEntries(urgent_treatments', handlers', treatment_id)
                follow_up_date == fromisoformat(data.follow_up_date)
                severity == _calculate_severity(store.health_records[data.record_id])
            IN IF /\ Truthy(data.follow_up_date)
                  /\ data.record_id \in DOMAIN store.health_records
               THEN /\ Cardinality(entries) = 1
                    /\ \A place \in entries :
                          QueuedEntry(urgent_treatments', handlers', place) =
                             <<_calculate_priority(follow_up_date, severity, now),
                               follow_up_date, treatment_id>>
               ELSE /\ entries = {}
                    /\ treatment_id \notin overdue_treatments']_vars

(***************************************************************************)
(* execute_write alone: writes of two handlers, with fn() raising at the   *)
(* INSERT or at the commit any number of times.                            *)
(***************************************************************************)
\* the JSON body of a POST /treatment without a follow-up date
RetryTreatmentData == [record_id |-> 1, follow_up_date |-> None]

\* fn() raises: the INSERT any exception, the commit an OperationalError
FnRaises(h, e) ==
    /\ \/ handlers[h].pc = "insert"
       \/ handlers[h].pc = "commit" /\ e.type = "OperationalError"
    /\ AfterException(h, e)
    /\ UNCHANGED <<engineVars, requests, faults>>

NextRetry ==
    \E h \in Handlers :
        \/ Receive(h, "add_treatment", RetryTreatmentData)
        \/ AcquireWriteLock(h)
        \/ ExecuteInsert(h)
        \/ \E e \in Exceptions : FnRaises(h, e)
        \/ EngineAddTreatment(h)
        \/ Commit(h)

SpecRetry == Init /\ [][NextRetry]_vars

\* the handler is inside fn()
InFn(h) == handlers[h].pc \in {"insert", "engine", "commit"}

IsLocked(e) ==
    /\ e.type = "OperationalError"
    /\ Contains(Lower(e.message), <<"l","o","c","k","e","d">>)

\* C25: execute_write calls fn at most `retries` times; a call that succeeds ends it
\* with the result of that call; fn is called again only after an OperationalError whose
\* message contains 'locked' and only with attempts left; any other exception, and a
\* 'locked' error of the last attempt, reaches the caller; fn runs only while its handler
\* holds the write lock, so at most one fn runs at a time, and the lock is released at
\* the end of every attempt.
BoundedWriteRetry ==
    /\ [](\A h \in Handlers :
            /\ handlers[h].attempt \in 0..(retries - 1)
            /\ InFn(h) <=> write_lock = h)
    /\ [][\A h \in Handlers :
            LET me == handlers[h]
                after == handlers'[h]
                succeeded == after.pc = "idle" /\ ret'.status = 201
                raised == IF after.pc = "idle" THEN ret'.raised ELSE after.e
            IN /\ (InFn(h) /\ ~InFn(h)') =>
                     /\ write_lock' = 0
                     /\ IF me.pc = "commit" /\ store'.treatment # store.treatment
                        THEN /\ succeeded
                             /\ ret'.id = me.rowid
                             /\ store'.treatment = store.treatment \cup {me.rowid}
                        ELSE /\ ~succeeded
                             /\ store'.treatment = store.treatment
                             /\ IF IsLocked(raised) /\ me.attempt < retries - 1
                                THEN after.pc = "lock" /\ after.attempt = me.attempt + 1
                                ELSE /\ after.pc = "idle"
                                     /\ ret' = [status |-> 400, raised |-> raised]
               /\ after.attempt # me.attempt =>
                     \/ after.attempt = 0
                     \/ /\ InFn(h)
                        /\ after.attempt = me.attempt + 1
                        /\ IsLocked(after.e)
                        /\ me.attempt < retries - 1]_vars

\* a handler makes its last call of fn after four 'locked' errors while the request
\* before was answered 400 with the 'locked' error of a last attempt
BoundedWriteRetryWitness ==
    /\ \E h \in Handlers :
          /\ handlers[h].attempt = retries - 1
          /\ handlers[h].pc = "commit"
          /\ IsLocked(handlers[h].e)
    /\ op.name = "add_treatment"
    /\ ret.status = 400
    /\ IsLocked(ret.raised)

====
